---- MODULE Spec2Model ----
(***************************************************************************)
(* Shingling / MinHash / pairwise-similarity pipeline of                   *)
(* BorysenkoLiza/Lexical_proximity (data_loader.py,                        *)
(* lexical_proximity_algorithm.py, driven as in main.py).                  *)
(*                                                                         *)
(* Python integers are unbounded and the values handled here reach 2^64    *)
(* (coeff_a * shingleID), while TLC integers are 32-bit.  Every shingle,   *)
(* coefficient and hash value is therefore carried as a pair <<hi, lo>>    *)
(* of 16-bit limbs standing for hi * 65536 + lo, so that the model works   *)
(* on the very values the program works on (max_shingle = 2^32 - 1,        *)
(* next_prime = 4294967311).                                               *)
(***************************************************************************)
EXTENDS Integers, Sequences, FiniteSets, TLC

VARIABLES
    pc,            \* position of the driver (main.py) or of the direct call
    error,         \* exception that ended the run, "none" while there is none
    directory,     \* what os.listdir returns, in its order: <<[name, text], ...>>
    shingle_arg,   \* shingle_size handed to DataLoader(...)
    hashes_arg,    \* num_hashes handed to LexicalProximityAlgorithm(...)
    pos,           \* number of directory entries load_documents has consumed
    shingle_size,  \* DataLoader.shingle_size
    doc_counter,   \* DataLoader.doc_counter
    docs_as_sets,  \* the dict docID -> shingle set, as <<<<docID, set>>, ...>>
    num_hashes,    \* LexicalProximityAlgorithm.num_hashes
    num_docs,      \* LexicalProximityAlgorithm.num_docs
    rand_set,      \* local rand_set of the running _pick_random_coeffs
    coeff_a,       \* LexicalProximityAlgorithm.coeff_a
    coeff_b,       \* LexicalProximityAlgorithm.coeff_b
    signatures,    \* result of generate_minhash_signatures
    similarities,  \* result of calculate_similarities
    text,          \* argument of a direct generate_shingles call
    shingles       \* result of that call

vars == <<pc, error, directory, shingle_arg, hashes_arg, pos, shingle_size,
          doc_counter, docs_as_sets, num_hashes, num_docs, rand_set, coeff_a,
          coeff_b, signatures, similarities, text, shingles>>

-----------------------------------------------------------------------------
(* Bounds of the model.                                                    *)

MaxDocs == 3         \* directory listings hold at most this many entries
MaxShingleSize == 2  \* shingle_size ranges over -1 .. MaxShingleSize
MaxNumHashes == 2    \* num_hashes ranges over -1 .. MaxNumHashes
MaxTextLen == 5      \* direct generate_shingles calls: texts up to this length

-----------------------------------------------------------------------------
(* Unbounded non-negative integers as two limbs <<hi, lo>>.                *)

Base == 2^16

Wide(hi, lo) == <<hi, lo>>

WLess(x, y) == x[1] < y[1] \/ (x[1] = y[1] /\ x[2] < y[2])

WLeq(x, y) == x = y \/ WLess(x, y)

WAdd(x, y) ==
    LET lo == x[2] + y[2]
    IN  <<x[1] + y[1] + (lo \div Base), lo % Base>>

\* x - y for x >= y
WSub(x, y) ==
    LET lo == x[2] - y[2]
    IN  IF lo < 0 THEN <<x[1] - y[1] - 1, lo + Base>> ELSE <<x[1] - y[1], lo>>

\* x % m for x < 2 * m
WReduce(x, m) == IF WLess(x, m) THEN x ELSE WSub(x, m)

WHalf(x) == <<x[1] \div 2, (x[1] % 2) * (Base \div 2) + (x[2] \div 2)>>

WOdd(x) == x[2] % 2 = 1

\* (a * s) % m for s < m, by shift-and-add over the bits of a, low bit first;
\* st = <<bits of a still to do, s * 2^i % m, sum so far % m>>
RECURSIVE WMulLoop(_, _)
WMulLoop(st, m) ==
    IF st[1] = <<0, 0>> THEN st[3]
    ELSE WMulLoop(<<WHalf(st[1]),
                    WReduce(WAdd(st[2], st[2]), m),
                    IF WOdd(st[1]) THEN WReduce(WAdd(st[3], st[2]), m) ELSE st[3]>>,
                  m)

WMulMod(a, s, m) == WMulLoop(<<a, s, <<0, 0>>>>, m)

RECURSIVE BitXor(_, _)
BitXor(a, b) ==
    IF a = 0 THEN b
    ELSE IF b = 0 THEN a
    ELSE 2 * BitXor(a \div 2, b \div 2) + ((a + b) % 2)

WXor(x, y) == <<BitXor(x[1], y[1]), BitXor(x[2], y[2])>>

-----------------------------------------------------------------------------
(* Text: a str is a sequence of one-character strings.                     *)

Whitespace == {" ", "\n"}
Punctuation == {","}

\* str.encode('utf-8') of one ASCII character
Ord(c) ==
    CASE c = "a" -> 97
      [] c = "b" -> 98
      [] c = "A" -> 65
      [] c = " " -> 32
      [] c = "\n" -> 10
      [] c = "," -> 44

\* str.lower() of one character
Lower(c) == IF c = "A" THEN "a" ELSE c

\* binascii.crc32: CRC-32 (polynomial 0xEDB88320, reflected), bit by bit
CrcPoly == Wide(60856, 33568)      \* 0xEDB88320
CrcMask == Wide(65535, 65535)      \* 0xFFFFFFFF

RECURSIVE CrcBits(_, _)
CrcBits(crc, n) ==
    IF n = 0 THEN crc
    ELSE CrcBits(IF WOdd(crc) THEN WXor(WHalf(crc), CrcPoly) ELSE WHalf(crc),
                 n - 1)

\* st = <<crc so far, bytes still to do>>
RECURSIVE CrcBytes(_)
CrcBytes(st) ==
    IF st[2] = <<>> THEN st[1]
    ELSE CrcBytes(<<CrcBits(WXor(st[1], Wide(0, Ord(Head(st[2])))), 8),
                    Tail(st[2])>>)

crc32(s) == WXor(CrcBytes(<<CrcMask, s>>), CrcMask)

\* re.sub(r'\s+', ' ', text): every run of whitespace becomes one space
RECURSIVE CollapseWhitespace(_)
CollapseWhitespace(s) ==
    IF s = <<>> THEN <<>>
    ELSE IF Head(s) \in Whitespace
         THEN IF Len(s) > 1 /\ s[2] \in Whitespace
              THEN CollapseWhitespace(Tail(s))
              ELSE <<" ">> \o CollapseWhitespace(Tail(s))
         ELSE <<Head(s)>> \o CollapseWhitespace(Tail(s))

\* .translate(str.maketrans('', '', string.punctuation))
RemovePunctuation(s) == SelectSeq(s, LAMBDA c : c \notin Punctuation)

basic_preprocess(s) ==
    LET t == RemovePunctuation(CollapseWhitespace(s))
    IN  [i \in 1..Len(t) |-> Lower(t[i])]

\* str.split(): the maximal runs of non-whitespace characters, in order
RECURSIVE SplitFrom(_, _)
SplitFrom(s, word) ==
    IF s = <<>> THEN (IF word = <<>> THEN <<>> ELSE <<word>>)
    ELSE IF Head(s) \in Whitespace
         THEN (IF word = <<>> THEN <<>> ELSE <<word>>) \o SplitFrom(Tail(s), <<>>)
         ELSE SplitFrom(Tail(s), Append(word, Head(s)))

split(s) == SplitFrom(s, <<>>)

\* ' '.join(ws)
RECURSIVE join(_)
join(ws) ==
    IF ws = <<>> THEN <<>>
    ELSE IF Len(ws) = 1 THEN ws[1]
    ELSE ws[1] \o <<" ">> \o join(Tail(ws))

\* Python slice seq[lo:hi] (0-based, negative indices count from the end)
PyIndex(i, n) ==
    LET j == IF i < 0 THEN i + n ELSE i
    IN  IF j < 0 THEN 0 ELSE IF j > n THEN n ELSE j

PySlice(s, lo, hi) ==
    LET n == Len(s)
        l == PyIndex(lo, n)
        h == PyIndex(hi, n)
    IN  IF l < h THEN SubSeq(s, l + 1, h) ELSE <<>>

\* range(len(words) - k + 2): one window too many
ShingleRangeOneMore(words, k) == 0 .. (Len(words) - k + 2) - 1

\* DataLoader.generate_shingles with self.shingle_size = k:
\* range(len(words) - self.shingle_size + 1)
ShingleRange(words, k) == 0 .. (Len(words) - k + 1) - 1

generate_shingles(t, k) ==
    LET words == split(t)
    IN  {crc32(join(PySlice(words, i, i + k))) : i \in ShingleRange(words, k)}

-----------------------------------------------------------------------------
(* DataLoader                                                              *)

EndsWith(s, suffix) ==
    /\ Len(s) >= Len(suffix)
    /\ SubSeq(s, Len(s) - Len(suffix) + 1, Len(s)) = suffix

TxtSuffix == <<".", "t", "x", "t">>

\* a mapping that does not keep insertion order: the newest key comes first
DictSetNewestFirst(d, key, value) ==
    <<<<key, value>>>> \o SelectSeq(d, LAMBDA item : item[1] # key)

\* d[key] = value on a dict kept as its items in insertion order
DictSet(d, key, value) ==
    IF \E n \in 1..Len(d) : d[n][1] = key
    THEN [n \in 1..Len(d) |-> IF d[n][1] = key THEN <<key, value>> ELSE d[n]]
    ELSE Append(d, <<key, value>>)

\* loader = DataLoader(directory_path, shingle_size)
NewDataLoader ==
    /\ pc = "start"
    /\ doc_counter' = 0
    /\ docs_as_sets' = <<>>
    /\ shingle_size' = shingle_arg
    /\ pos' = 0
    /\ pc' = "loading"
    /\ UNCHANGED <<error, directory, shingle_arg, hashes_arg, num_hashes,
                   num_docs, rand_set, coeff_a, coeff_b, signatures,
                   similarities, text, shingles>>

\* One iteration of load_documents' loop over os.listdir, and, for a .txt
\* file, the body of get_docs_as_sets' loop on the pair it yields.
LoadDocument ==
    /\ pc = "loading"
    /\ pos < Len(directory)
    /\ pos' = pos + 1
    /\ LET file == directory[pos + 1]
       IN  IF EndsWith(file.name, TxtSuffix)
           THEN LET docID == doc_counter + 1
                    processed_text == basic_preprocess(file.text)
                IN  /\ doc_counter' = docID
                    /\ docs_as_sets' =
                         DictSet(docs_as_sets, docID,
                                 generate_shingles(processed_text, shingle_size))
           ELSE UNCHANGED <<doc_counter, docs_as_sets>>
    /\ UNCHANGED <<pc, error, directory, shingle_arg, hashes_arg, shingle_size,
                   num_hashes, num_docs, rand_set, coeff_a, coeff_b, signatures,
                   similarities, text, shingles>>

\* load_documents is exhausted: get_docs_as_sets returns self.docs_as_sets
ReturnDocs ==
    /\ pc = "loading"
    /\ pos = Len(directory)
    /\ pc' = "loaded"
    /\ UNCHANGED <<error, directory, shingle_arg, hashes_arg, pos, shingle_size,
                   doc_counter, docs_as_sets, num_hashes, num_docs, rand_set,
                   coeff_a, coeff_b, signatures, similarities, text, shingles>>

\* A direct call loader.generate_shingles(text)
CallGenerateShingles ==
    /\ pc = "call_generate_shingles"
    /\ shingles' = generate_shingles(text, shingle_size)
    /\ pc' = "returned"
    /\ UNCHANGED <<error, directory, shingle_arg, hashes_arg, pos, shingle_size,
                   doc_counter, docs_as_sets, num_hashes, num_docs, rand_set,
                   coeff_a, coeff_b, signatures, similarities, text>>

-----------------------------------------------------------------------------
(* LexicalProximityAlgorithm                                               *)

max_shingle == Wide(65535, 65535)     \* 2**32 - 1
next_prime == Wide(65536, 15)         \* 4294967311

\* The values random.randint(0, self.max_shingle) is taken to return: three of
\* the 2^32, the two ends of the range among them (the loop of
\* _pick_random_coeffs can end only for num_hashes up to their number)
RandomValues == {Wide(0, 0), Wide(0, 3), max_shingle}

\* algorithm = LexicalProximityAlgorithm(docs_as_sets, num_hashes), up to the
\* first call of _pick_random_coeffs
NewAlgorithm ==
    /\ pc = "loaded"
    /\ num_hashes' = hashes_arg
    /\ num_docs' = Len(docs_as_sets)
    /\ rand_set' = {}
    /\ pc' = "pick_a"
    /\ UNCHANGED <<error, directory, shingle_arg, hashes_arg, pos, shingle_size,
                   doc_counter, docs_as_sets, coeff_a, coeff_b, signatures,
                   similarities, text, shingles>>

\* One iteration of the while loop of _pick_random_coeffs
PickRandomCoeff ==
    /\ pc \in {"pick_a", "pick_b"}
    /\ Cardinality(rand_set) < num_hashes
    /\ \E rand_index \in RandomValues :
         rand_set' = IF rand_index \notin rand_set
                     THEN rand_set \cup {rand_index}
                     ELSE rand_set
    /\ UNCHANGED <<pc, error, directory, shingle_arg, hashes_arg, pos,
                   shingle_size, doc_counter, docs_as_sets, num_hashes, num_docs,
                   coeff_a, coeff_b, signatures, similarities, text, shingles>>

\* list(rand_set): the elements of the set, each once, in the set's own order,
\* which the language leaves open: every order
ListOfSet(S) ==
    {l \in [1..Cardinality(S) -> S] : \A x \in S : \E n \in DOMAIN l : l[n] = x}

\* _pick_random_coeffs returns: to self.coeff_a, then to self.coeff_b
ReturnCoeffs ==
    /\ pc \in {"pick_a", "pick_b"}
    /\ ~(Cardinality(rand_set) < num_hashes)
    /\ \E coeffs \in ListOfSet(rand_set) :
         IF pc = "pick_a"
         THEN /\ coeff_a' = coeffs
              /\ rand_set' = {}
              /\ pc' = "pick_b"
              /\ UNCHANGED coeff_b
         ELSE /\ coeff_b' = coeffs
              /\ pc' = "constructed"
              /\ UNCHANGED <<coeff_a, rand_set>>
    /\ UNCHANGED <<error, directory, shingle_arg, hashes_arg, pos, shingle_size,
                   doc_counter, docs_as_sets, num_hashes, num_docs, signatures,
                   similarities, text, shingles>>

\* (coeff_a[i] * shingleID + coeff_b[i]) % next_prime, for the shingleID and
\* coeff_b[i] below next_prime that the program has (both are at most 2^32 - 1)
hash_code(a, shingleID, b) ==
    WReduce(WAdd(WMulMod(a, shingleID, next_prime), b), next_prime)

\* the loop without its test "if hash_code < min_hash": the last hash is kept
RECURSIVE MinHashLoopNoTest(_, _, _, _)
MinHashLoopNoTest(shingleIDSet, a, b, min_hash) ==
    IF shingleIDSet = {} THEN min_hash
    ELSE LET shingleID == CHOOSE x \in shingleIDSet : TRUE
         IN  MinHashLoopNoTest(shingleIDSet \ {shingleID}, a, b,
                               hash_code(a, shingleID, b))

\* the loop over shingleIDSet that lowers min_hash
RECURSIVE MinHashLoop(_, _, _, _)
MinHashLoop(shingleIDSet, a, b, min_hash) ==
    IF shingleIDSet = {} THEN min_hash
    ELSE LET shingleID == CHOOSE x \in shingleIDSet : TRUE
             hc == hash_code(a, shingleID, b)
         IN  MinHashLoop(shingleIDSet \ {shingleID}, a, b,
                         IF WLess(hc, min_hash) THEN hc ELSE min_hash)

Sentinel == WAdd(next_prime, Wide(0, 1))

\* the signature of one document: the body of the loop over doc_id
Signature(shingleIDSet, n, ca, cb) ==
    [i \in 1..n |-> MinHashLoop(shingleIDSet, ca[i], cb[i], Sentinel)]

\* signatures = algorithm.generate_minhash_signatures()
GenerateMinhashSignatures ==
    /\ pc = "constructed"
    /\ signatures' =
         [d \in 1..Len(docs_as_sets) |->
            Signature(docs_as_sets[d][2], num_hashes, coeff_a, coeff_b)]
    /\ pc' = "signed"
    /\ UNCHANGED <<error, directory, shingle_arg, hashes_arg, pos, shingle_size,
                   doc_counter, docs_as_sets, num_hashes, num_docs, rand_set,
                   coeff_a, coeff_b, similarities, text, shingles>>

\* range(1, num_hashes): the first position is never compared
MatchCountFromOne(sig1, sig2, n) ==
    Cardinality({k \in 2..n : sig1[k] = sig2[k]})

\* count += (sig1[k] <= sig2[k])
MatchCountLeq(sig1, sig2, n) ==
    Cardinality({k \in 1..n : WLeq(sig1[k], sig2[k])})

\* count of the k in range(0, num_hashes) with sig1[k] == sig2[k]
MatchCount(sig1, sig2, n) ==
    Cardinality({k \in 1..n : sig1[k] = sig2[k]})

\* sim = count / self.num_hashes, kept as the fraction count over num_hashes
\* (the caller raises ZeroDivisionError for num_hashes = 0)
EstimatedSimilarity(sig1, sig2, n) ==
    [num |-> MatchCount(sig1, sig2, n), den |-> n]

\* for j in range(self.num_docs): every ordered pair, the diagonal included
PairsFromAll(i, j, n) ==
    [k \in 1..(n * n) |-> <<(k - 1) \div n, (k - 1) % n>>]

\* the (i, j) the two nested loops visit, in their order (0-based)
RECURSIVE PairsFrom(_, _, _)
PairsFrom(i, j, n) ==
    IF i >= n THEN <<>>
    ELSE IF j >= n THEN PairsFrom(i + 1, i + 2, n)
    ELSE <<<<i, j>>>> \o PairsFrom(i, j + 1, n)

\* similar_pairs = algorithm.calculate_similarities(signatures)
CalculateSimilarities ==
    /\ pc = "signed"
    /\ LET pairs == PairsFrom(0, 1, num_docs)
       IN  IF pairs # <<>> /\ num_hashes = 0
           THEN /\ error' = "ZeroDivisionError"
                /\ pc' = "failed"
                /\ UNCHANGED similarities
           ELSE /\ similarities' =
                     [p \in 1..Len(pairs) |->
                        <<pairs[p][1], pairs[p][2],
                          EstimatedSimilarity(signatures[pairs[p][1] + 1],
                                              signatures[pairs[p][2] + 1],
                                              num_hashes)>>]
                /\ pc' = "done"
                /\ UNCHANGED error
    /\ UNCHANGED <<directory, shingle_arg, hashes_arg, pos, shingle_size,
                   doc_counter, docs_as_sets, num_hashes, num_docs, rand_set,
                   coeff_a, coeff_b, signatures, text, shingles>>

-----------------------------------------------------------------------------
(* The runs.                                                               *)

File(name, content) == [name |-> name, text |-> content]

\* The files a directory may hold
Files ==
    { File(<<"a", ".", "t", "x", "t">>,
           <<"A", " ", "b", ",", "\n", " ", "a", " ", "b">>),
      File(<<"b", ".", "t", "x", "t">>, <<"a", " ", "b", " ", "a">>),
      File(<<"c", ".", "t", "x", "t">>, <<>>),
      File(<<"d", ".", "t", "x", "t">>, <<"b", ",">>),
      File(<<"t", "x", "t", ".", "a">>, <<"a", " ", "b">>) }

\* os.listdir: any files with distinct names, in an arbitrary order
Listings ==
    UNION {{l \in [1..n -> Files] :
              \A x, y \in 1..n : x # y => l[x].name # l[y].name} : n \in 0..MaxDocs}

Unset == "unset"

\* main.py: the arguments and the directory are chosen, nothing has been built
Init ==
    /\ pc = "start"
    /\ error = "none"
    /\ directory \in Listings
    /\ shingle_arg \in -1..MaxShingleSize
    /\ hashes_arg \in -1..MaxNumHashes
    /\ pos = 0
    /\ shingle_size = Unset
    /\ doc_counter = 0
    /\ docs_as_sets = <<>>
    /\ num_hashes = Unset
    /\ num_docs = 0
    /\ rand_set = {}
    /\ coeff_a = <<>>
    /\ coeff_b = <<>>
    /\ signatures = <<>>
    /\ similarities = <<>>
    /\ text = <<>>
    /\ shingles = {}

Next ==
    \/ NewDataLoader
    \/ LoadDocument
    \/ ReturnDocs
    \/ NewAlgorithm
    \/ PickRandomCoeff
    \/ ReturnCoeffs
    \/ GenerateMinhashSignatures
    \/ CalculateSimilarities

Spec == Init /\ [][Next]_vars

\* main.py up to "got signatures"
NextSignatures ==
    \/ NewDataLoader
    \/ LoadDocument
    \/ ReturnDocs
    \/ NewAlgorithm
    \/ PickRandomCoeff
    \/ ReturnCoeffs
    \/ GenerateMinhashSignatures

SpecSignatures == Init /\ [][NextSignatures]_vars

TextChars == {"a", "b", " ", "\n"}

Texts == UNION {[1..n -> TextChars] : n \in 0..MaxTextLen}

\* a DataLoader with any shingle_size, about to shingle any text
\* (loader.generate_shingles(text) called on its own)
InitShingles ==
    /\ pc = "call_generate_shingles"
    /\ error = "none"
    /\ directory = <<>>
    /\ shingle_arg \in -1..MaxShingleSize
    /\ shingle_size = shingle_arg
    /\ hashes_arg = 0
    /\ pos = 0
    /\ doc_counter = 0
    /\ docs_as_sets = <<>>
    /\ num_hashes = Unset
    /\ num_docs = 0
    /\ rand_set = {}
    /\ coeff_a = <<>>
    /\ coeff_b = <<>>
    /\ signatures = <<>>
    /\ similarities = <<>>
    /\ text \in Texts
    /\ shingles = {}

NextShingles == CallGenerateShingles

SpecShingles == InitShingles /\ [][NextShingles]_vars

-----------------------------------------------------------------------------
(* Vocabulary of the properties.                                           *)

\* generate_minhash_signatures has just returned
Signed == pc = "signed"

\* the shingle set of the document at 0-based position i of docs_as_sets
ShingleSetAt(i) == docs_as_sets[i + 1][2]

\* the 0-based positions of the documents
Positions == 0 .. (Len(docs_as_sets) - 1)

\* a fraction num/den that equals 1.0
IsOne(sim) == sim.den # 0 /\ sim.num = sim.den

\* a fraction num/den with 0 <= num/den <= 1
InUnitInterval(sim) ==
    \/ sim.den > 0 /\ 0 <= sim.num /\ sim.num <= sim.den
    \/ sim.den < 0 /\ sim.den <= sim.num /\ sim.num <= 0

\* the number of whitespace-separated words of t: the positions where a word starts
WordCount(t) ==
    Cardinality({n \in 1..Len(t) :
                   /\ t[n] \notin Whitespace
                   /\ (n = 1 \/ t[n - 1] \in Whitespace)})

Max0(n) == IF n > 0 THEN n ELSE 0

\* the .txt files of the directory, in listing order
TxtFiles == SelectSeq(directory, LAMBDA f : EndsWith(f.name, TxtSuffix))

Distinct(l) == \A x, y \in 1..Len(l) : x # y => l[x] # l[y]

-----------------------------------------------------------------------------
(* C1: for positive num_hashes and whatever coefficients were drawn, every *)
(* triple that calculate_similarities reports for two documents with the   *)
(* same shingle set (two empty sets included) has similarity exactly 1.0.  *)
C1_IdenticalSetsSimilarityOne ==
    (pc = "done" /\ num_hashes > 0) =>
        \A t \in 1..Len(similarities) :
            ShingleSetAt(similarities[t][1]) = ShingleSetAt(similarities[t][2])
                => IsOne(similarities[t][3])

\* two documents with empty shingle sets were compared and scored 1.0, and a
\* pair with different sets was scored below 1.0 in the same run
C1_Witness ==
    /\ pc = "done"
    /\ num_hashes > 0
    /\ \E t \in 1..Len(similarities) :
         /\ ShingleSetAt(similarities[t][1]) = {}
         /\ ShingleSetAt(similarities[t][2]) = {}
         /\ IsOne(similarities[t][3])
    /\ \E t \in 1..Len(similarities) :
         /\ ShingleSetAt(similarities[t][1]) # ShingleSetAt(similarities[t][2])
         /\ ~IsOne(similarities[t][3])

(* C2: a DataLoader built with shingle_size <= 0, and an algorithm built   *)
(* with num_hashes <= 0, fail with a configuration error at construction,  *)
(* before any document is loaded, shingled or hashed.                      *)
C2_ConfigurationErrorAtConstruction ==
    /\ (pc # "start" /\ shingle_arg <= 0)
          => (error = "ConfigurationError" /\ doc_counter = 0)
    /\ (pc \notin {"start", "loading", "loaded"} /\ hashes_arg <= 0)
          => (error = "ConfigurationError" /\ signatures = <<>>)

(* C3: with zero documents the run never completes normally with an empty *)
(* result: an empty-corpus error reaches the caller.                       *)
C3_EmptyCorpusError ==
    (pc \in {"done", "failed"} /\ num_docs = 0) => error = "EmptyCorpusError"

(* C4: every signature generate_minhash_signatures returns has length      *)
(* exactly num_hashes, and the signature of a document with an empty       *)
(* shingle set holds the sentinel next_prime + 1 in every entry.           *)
C4_SignatureLength ==
    Signed =>
        \A d \in 1..Len(signatures) :
            /\ Len(signatures[d]) = num_hashes
            /\ docs_as_sets[d][2] = {} =>
                  \A i \in 1..num_hashes : signatures[d][i] = Sentinel

\* C4 for num_hashes >= 0 only: the part of C4 the code does satisfy
C4_SignatureLengthNonNegative ==
    (Signed /\ num_hashes >= 0) =>
        \A d \in 1..Len(signatures) :
            /\ Len(signatures[d]) = num_hashes
            /\ docs_as_sets[d][2] = {} =>
                  \A i \in 1..num_hashes : signatures[d][i] = Sentinel

(* C5: calculate_similarities returns exactly one triple (i, j, sim) for   *)
(* every 0 <= i < j < num_docs and nothing else: num_docs*(num_docs-1)/2   *)
(* triples, none with i >= j, none repeated; i and j are positions in the  *)
(* signatures list.                                                        *)
C5_OneTriplePerPair ==
    pc = "done" =>
        /\ Len(signatures) = num_docs
        /\ 2 * Len(similarities) = num_docs * (num_docs - 1)
        /\ \A t \in 1..Len(similarities) :
              /\ 0 <= similarities[t][1]
              /\ similarities[t][1] < similarities[t][2]
              /\ similarities[t][2] < num_docs
        /\ \A i, j \in 0..(num_docs - 1) :
              i < j => Cardinality({t \in 1..Len(similarities) :
                                      /\ similarities[t][1] = i
                                      /\ similarities[t][2] = j}) = 1

\* three documents were compared: the three pairs, once each
C5_Witness ==
    /\ pc = "done"
    /\ num_docs = 3
    /\ Len(similarities) = 3

(* C6: the similarity of two signatures (the number of positions where     *)
(* they agree, over num_hashes) is the same with the two signatures        *)
(* swapped, and lies in [0, 1].                                            *)
C6_SymmetricInUnitInterval ==
    pc = "done" =>
        \A t \in 1..Len(similarities) :
            LET i == similarities[t][1]
                j == similarities[t][2]
            IN  /\ similarities[t][3] =
                     EstimatedSimilarity(signatures[j + 1], signatures[i + 1],
                                         num_hashes)
                /\ InUnitInterval(similarities[t][3])

\* two signatures that agree in one position and differ in another, where the
\* smaller value sits on the first signature once and on the second once
C6_Witness ==
    /\ pc = "done"
    /\ \E t \in 1..Len(similarities) :
         LET sig1 == signatures[similarities[t][1] + 1]
             sig2 == signatures[similarities[t][2] + 1]
         IN  /\ similarities[t][3].num = 1
             /\ similarities[t][3].den = 2
             /\ \E k \in 1..2 : WLess(sig1[k], sig2[k]) \/ WLess(sig2[k], sig1[k])

(* C7: the set generate_shingles returns has at most                       *)
(* max(0, wordCount - k + 1) elements, and is empty, with no error, when   *)
(* the text has fewer than k words.                                        *)
C7_ShingleSetSizeBound ==
    pc = "returned" =>
        /\ Cardinality(shingles) <= Max0(WordCount(text) - shingle_size + 1)
        /\ WordCount(text) < shingle_size => shingles = {}
        /\ error = "none"

\* a text of three words gave two distinct two-word shingles
C7_Witness ==
    /\ pc = "returned"
    /\ shingle_size = 2
    /\ WordCount(text) = 3
    /\ Cardinality(shingles) = 2

(* C8: whenever _pick_random_coeffs returns, its list holds exactly        *)
(* num_hashes values, pairwise distinct, each in [0, max_shingle]; this    *)
(* holds for coeff_a and for coeff_b.                                      *)
CoeffsOk(coeffs) ==
    /\ Len(coeffs) = num_hashes
    /\ Distinct(coeffs)
    /\ \A n \in 1..Len(coeffs) : WLeq(coeffs[n], max_shingle)

C8_CoefficientPools ==
    /\ pc \in {"pick_b", "constructed", "signed", "done", "failed"}
          => CoeffsOk(coeff_a)
    /\ pc \in {"constructed", "signed", "done", "failed"} => CoeffsOk(coeff_b)

\* C8 for num_hashes >= 0 only: the part of C8 the code does satisfy
C8_CoefficientPoolsNonNegative ==
    /\ (pc \in {"pick_b", "constructed", "signed", "done", "failed"}
          /\ num_hashes >= 0) => CoeffsOk(coeff_a)
    /\ (pc \in {"constructed", "signed", "done", "failed"}
          /\ num_hashes >= 0) => CoeffsOk(coeff_b)

(* C9: for a document with a non-empty shingle set S, slot i of its        *)
(* signature is the least (coeff_a[i]*s + coeff_b[i]) mod next_prime over  *)
(* s in S; it is below next_prime, so it is not the sentinel and differs   *)
(* from slot i of any document whose shingle set is empty.                 *)
C9_SlotIsMinimum ==
    Signed =>
        \A d \in 1..Len(signatures) : \A i \in 1..num_hashes :
            LET S == docs_as_sets[d][2]
                slot == signatures[d][i]
                hashes == {hash_code(coeff_a[i], s, coeff_b[i]) : s \in S}
            IN  S # {} =>
                  /\ slot \in hashes
                  /\ \A h \in hashes : WLeq(slot, h)
                  /\ WLess(slot, next_prime)
                  /\ slot # Sentinel
                  /\ \A e \in 1..Len(signatures) :
                        docs_as_sets[e][2] = {} => signatures[e][i] # slot

\* a document with two shingles whose hashes differ, next to an empty one
C9_Witness ==
    /\ Signed
    /\ num_hashes > 0
    /\ \E d, e \in 1..Len(signatures) :
         /\ docs_as_sets[e][2] = {}
         /\ \E s1, s2 \in docs_as_sets[d][2] :
              WLess(hash_code(coeff_a[1], s1, coeff_b[1]),
                    hash_code(coeff_a[1], s2, coeff_b[1]))

(* C10: once get_docs_as_sets has loaded n documents, with IDs 1..n in     *)
(* discovery order, generate_minhash_signatures returns n signatures in    *)
(* that order (position i holds the signature of document ID i+1), and the *)
(* indices of every triple are positions in that order.                    *)
C10_LoadOrderPreserved ==
    /\ pc = "loaded" =>
          /\ doc_counter = Len(TxtFiles)
          /\ Len(docs_as_sets) = Len(TxtFiles)
          /\ \A n \in 1..Len(TxtFiles) :
                docs_as_sets[n] =
                    <<n, generate_shingles(basic_preprocess(TxtFiles[n].text),
                                           shingle_size)>>
    /\ Signed =>
          /\ Len(signatures) = Len(TxtFiles)
          /\ \A n \in 1..Len(TxtFiles) :
                /\ docs_as_sets[n][1] = n
                /\ signatures[n] =
                     Signature(docs_as_sets[n][2], num_hashes, coeff_a, coeff_b)
    /\ pc = "done" =>
          \A t \in 1..Len(similarities) :
              /\ similarities[t][1] + 1 \in 1..Len(TxtFiles)
              /\ similarities[t][2] + 1 \in 1..Len(TxtFiles)

\* a listing whose first entry is not a .txt file, then two documents whose
\* signatures differ, compared as positions 0 and 1
C10_Witness ==
    /\ pc = "done"
    /\ Len(directory) = 3
    /\ ~EndsWith(directory[1].name, TxtSuffix)
    /\ num_docs = 2
    /\ signatures[1] # signatures[2]
    /\ similarities[1][1] = 0
    /\ similarities[1][2] = 1

====
